---- MODULE Spec2Model ----
(***************************************************************************)
(* unllm: cleaning and inspection of LLM output text.                      *)
(*                                                                         *)
(* Two variants of the engine are modelled:                                *)
(*   - the options variant (src/unnamed/part_000): clean / inspect with    *)
(*     the invisible / spaces / dashes / ellipsis toggles; its definitions *)
(*     carry the prefix O_;                                                *)
(*   - the presets variant (src/index.ts): clean / cleanWith / normalize / *)
(*     findIssues / isClean / inspect with eight toggles; its definitions  *)
(*     carry the prefix P_.                                                *)
(*                                                                         *)
(* A JavaScript string is a sequence of UTF-16 code units (numbers in      *)
(* 0 .. 65535).  A "char" handed out by Array.from is a string of one code *)
(* unit, or of two when a high surrogate is followed by a low surrogate.   *)
(***************************************************************************)
EXTENDS Integers, Sequences, FiniteSets, TLC

VARIABLES
  text,     \* the input string of the client
  opts,     \* the options record of its calls
  pc,       \* which calls the client has made
  out,      \* the result of clean(text, opts)
  out2,     \* the result of clean(out, opts)
  issues,   \* the result of inspect
  verdict,  \* the result of isClean
  shared    \* the module-level objects: tables, registry, regex state

vars == <<text, opts, pc, out, out2, issues, verdict, shared>>

(***************************************************************************)
(* Bounds of the model.                                                    *)
(***************************************************************************)
\* longest input string, in UTF-16 code units
MaxLen == 3

(***************************************************************************)
(* JavaScript string primitives the source relies on.                      *)
(***************************************************************************)
isHighSurrogate(u) == u >= \hD800 /\ u <= \hDBFF
isLowSurrogate(u) == u >= \hDC00 /\ u <= \hDFFF

\* Array.from(text): the string split into code points; a well-formed
\* surrogate pair is one element, an unpaired surrogate is its own element.
RECURSIVE ArrayFrom(_)
ArrayFrom(s) ==
  IF s = <<>> THEN <<>>
  ELSE IF Len(s) >= 2 /\ isHighSurrogate(s[1]) /\ isLowSurrogate(s[2])
       THEN <<SubSeq(s, 1, 2)>> \o ArrayFrom(SubSeq(s, 3, Len(s)))
       ELSE <<SubSeq(s, 1, 1)>> \o ArrayFrom(Tail(s))

\* char.codePointAt(0), for a non-empty string
codePointAt0(char) ==
  IF Len(char) >= 2 /\ isHighSurrogate(char[1]) /\ isLowSurrogate(char[2])
  THEN \h10000 + (char[1] - \hD800) * \h400 + (char[2] - \hDC00)
  ELSE char[1]

\* char.charCodeAt(0), for a non-empty string
charCodeAt0(char) == char[1]

\* array.join(''): the concatenation of the elements
RECURSIVE join(_)
join(chars) == IF chars = <<>> THEN <<>> ELSE Head(chars) \o join(Tail(chars))

\* result.replaceAll(from, to) for a pattern of one code unit: every
\* occurrence of from becomes to; a string without from is returned as it is
replaceAll(s, from, to) ==
  IF \A i \in DOMAIN s : s[i] # from THEN s
  ELSE join([i \in DOMAIN s |-> IF s[i] = from THEN to ELSE <<s[i]>>])

\* all strings over the alphabet A of at most n code units
RECURSIVE StringsUpTo(_, _)
StringsUpTo(A, n) ==
  IF n = 0 THEN {<<>>}
  ELSE LET shorter == StringsUpTo(A, n - 1)
       IN  shorter \cup {Append(s, u) : s \in shorter, u \in A}

(***************************************************************************)
(* Options variant (src/unnamed/part_000).                                 *)
(***************************************************************************)
O_defaultOptions ==
  [invisible |-> TRUE, spaces |-> TRUE, dashes |-> FALSE, ellipsis |-> FALSE]

\* { ...defaultOptions, ...options }
O_mergeOptions(options) ==
  [k \in DOMAIN O_defaultOptions |->
     IF k \in DOMAIN options THEN options[k] ELSE O_defaultOptions[k]]

O_UNICODE_SPACES ==
  << \h00A0, \h1680, \h2000, \h2001, \h2002, \h2003, \h2004, \h2005,
     \h2006, \h2007, \h2008, \h2009, \h200A, \h202F, \h205F, \h3000 >>

\* mutant: the EM DASH entry maps to EN DASH instead of "-"
O_DASH_MAP_chained ==
  << <<\h2013, <<45>>>>, <<\h2014, <<\h2013>>>>, <<\h2212, <<45>>>>, <<\h00AD, <<>>>> >>

\* Object.entries(DASH_MAP): <<from, to>> in insertion order
O_DASH_MAP ==
  << <<\h2013, <<45>>>>, <<\h2014, <<45>>>>, <<\h2212, <<45>>>>, <<\h00AD, <<>>>> >>

\* mutant: the table lacks the C1 control characters U+0080 - U+009F
O_INVISIBLE_CHARS_noC1 ==
  << \h0000, \h0001, \h0002, \h0003, \h0004, \h0005, \h0006, \h0007, \h0008,
     \h000B, \h000C, \h000E, \h000F,
     \h0010, \h0011, \h0012, \h0013, \h0014, \h0015, \h0016, \h0017,
     \h0018, \h0019, \h001A, \h001B, \h001C, \h001D, \h001E, \h001F,
     \h007F,
     \h200B, \h200C, \h200E, \h200F,
     \h2060, \h2061, \h2062, \h2063, \h2064, \hFEFF >>

O_INVISIBLE_CHARS ==
  << \h0000, \h0001, \h0002, \h0003, \h0004, \h0005, \h0006, \h0007, \h0008,
     \h000B, \h000C, \h000E, \h000F,
     \h0010, \h0011, \h0012, \h0013, \h0014, \h0015, \h0016, \h0017,
     \h0018, \h0019, \h001A, \h001B, \h001C, \h001D, \h001E, \h001F,
     \h007F,
     \h0080, \h0081, \h0082, \h0083, \h0084, \h0085, \h0086, \h0087,
     \h0088, \h0089, \h008A, \h008B, \h008C, \h008D, \h008E, \h008F,
     \h0090, \h0091, \h0092, \h0093, \h0094, \h0095, \h0096, \h0097,
     \h0098, \h0099, \h009A, \h009B, \h009C, \h009D, \h009E, \h009F,
     \h200B, \h200C, \h200E, \h200F,
     \h2060, \h2061, \h2062, \h2063, \h2064, \hFEFF >>

Range(f) == {f[i] : i \in DOMAIN f}

\* the twelve ranges of "actual" emoji that containsEmoji tests
O_inEmojiRanges(code) ==
  \/ (code >= \h1F600 /\ code <= \h1F64F)
  \/ (code >= \h1F300 /\ code <= \h1F5FF)
  \/ (code >= \h1F680 /\ code <= \h1F6FF)
  \/ (code >= \h1F700 /\ code <= \h1F77F)
  \/ (code >= \h1F780 /\ code <= \h1F7FF)
  \/ (code >= \h1F800 /\ code <= \h1F8FF)
  \/ (code >= \h1F900 /\ code <= \h1F9FF)
  \/ (code >= \h1FA00 /\ code <= \h1FA6F)
  \/ (code >= \h1FA70 /\ code <= \h1FAFF)
  \/ (code >= \h2600 /\ code <= \h26FF)
  \/ (code >= \h2700 /\ code <= \h27BF)
  \/ (code >= \h1F1E6 /\ code <= \h1F1FF)

\* isEmoji(char): the emoji ranges, the variation selectors and the skin tones
O_isEmoji(char) ==
  LET code == codePointAt0(char)
  IN  IF code = 0 THEN FALSE
      ELSE \/ O_inEmojiRanges(code)
           \/ (code >= \hFE00 /\ code <= \hFE0F)
           \/ (code >= \h1F3FB /\ code <= \h1F3FF)

\* mutant: the text is scanned by UTF-16 code unit, not by code point
O_containsEmoji_perUnit(s) ==
  \E i \in DOMAIN s : s[i] # 0 /\ O_inEmojiRanges(s[i])

\* containsEmoji(text): some code point of text is an actual emoji
O_containsEmoji(s) ==
  LET chars == ArrayFrom(s)
  IN  \E i \in DOMAIN chars :
         LET code == codePointAt0(chars[i])
         IN  code # 0 /\ O_inEmojiRanges(code)

\* char in DASH_MAP
O_inDashMap(char) == \E i \in DOMAIN O_DASH_MAP : char = <<O_DASH_MAP[i][1]>>

\* mutant: the dash test ignores options.dashes
O_needsCleaning_ungatedDashes(char, options) ==
  LET code == codePointAt0(char)
  IN  IF O_isEmoji(char) THEN FALSE
      ELSE IF options.invisible /\ code \in Range(O_INVISIBLE_CHARS) THEN TRUE
      ELSE IF options.invisible /\ code = \h200D THEN ~O_isEmoji(char)
      ELSE IF options.spaces /\ \E i \in DOMAIN O_UNICODE_SPACES :
                                    char = <<O_UNICODE_SPACES[i]>> THEN TRUE
      ELSE IF O_inDashMap(char) THEN TRUE
      ELSE IF options.ellipsis /\ code = \h2026 THEN TRUE
      ELSE FALSE

\* mutant: the Unicode spaces are not tested
O_needsCleaning_noSpaces(char, options) ==
  LET code == codePointAt0(char)
  IN  IF O_isEmoji(char) THEN FALSE
      ELSE IF options.invisible /\ code \in Range(O_INVISIBLE_CHARS) THEN TRUE
      ELSE IF options.invisible /\ code = \h200D THEN ~O_isEmoji(char)
      ELSE IF options.dashes /\ O_inDashMap(char) THEN TRUE
      ELSE IF options.ellipsis /\ code = \h2026 THEN TRUE
      ELSE FALSE

\* mutant: a surrogate code unit on its own is flagged
O_needsCleaning_flagsSurrogates(char, options) ==
  LET code == codePointAt0(char)
  IN  IF O_isEmoji(char) THEN FALSE
      ELSE IF isHighSurrogate(code) \/ isLowSurrogate(code) THEN TRUE
      ELSE IF options.invisible /\ code \in Range(O_INVISIBLE_CHARS) THEN TRUE
      ELSE IF options.invisible /\ code = \h200D THEN ~O_isEmoji(char)
      ELSE IF options.spaces /\ \E i \in DOMAIN O_UNICODE_SPACES :
                                    char = <<O_UNICODE_SPACES[i]>> THEN TRUE
      ELSE IF options.dashes /\ O_inDashMap(char) THEN TRUE
      ELSE IF options.ellipsis /\ code = \h2026 THEN TRUE
      ELSE FALSE

\* needsCleaning(char, options)
O_needsCleaning(char, options) ==
  LET code == codePointAt0(char)
  IN  IF O_isEmoji(char) THEN FALSE
      ELSE IF options.invisible /\ code \in Range(O_INVISIBLE_CHARS) THEN TRUE
      ELSE IF options.invisible /\ code = \h200D THEN ~O_isEmoji(char)
      ELSE IF options.spaces /\ \E i \in DOMAIN O_UNICODE_SPACES :
                                    char = <<O_UNICODE_SPACES[i]>> THEN TRUE
      ELSE IF options.dashes /\ O_inDashMap(char) THEN TRUE
      ELSE IF options.ellipsis /\ code = \h2026 THEN TRUE
      ELSE FALSE

\* getCharInfo(char, code).type
O_getCharInfoType(char, code) ==
  IF code >= \h0000 /\ code <= \h001F THEN "control"
  ELSE IF code >= \h007F /\ code <= \h009F THEN "control"
  ELSE IF code \in { \h200B, \h200C, \h200D, \h200E, \h200F, \h2060, \h2061,
                     \h2062, \h2063, \h2064, \hFEFF } THEN "invisible"
  ELSE "typography"

\* inspect(text, options): one Issue per flagged code point, in input order;
\* position is the zero-based index in Array.from(text)
O_inspect(s, options) ==
  LET chars == ArrayFrom(s)
      o     == O_mergeOptions(options)
      flagged == SelectSeq([i \in DOMAIN chars |-> i],
                           LAMBDA i : O_needsCleaning(chars[i], o))
  IN  [j \in DOMAIN flagged |->
         [char     |-> chars[flagged[j]],
          code     |-> codePointAt0(chars[flagged[j]]),
          position |-> flagged[j] - 1,
          type     |-> O_getCharInfoType(chars[flagged[j]],
                                         codePointAt0(chars[flagged[j]]))]]

\* mutant: every code unit below U+0020 is deleted, TAB, LF and CR included
O_removeInvisible_allC0(s, hasEmojis) ==
  SelectSeq(s, LAMBDA u :
     /\ u >= 32
     /\ ~\E n \in DOMAIN O_INVISIBLE_CHARS :
           /\ ~(O_INVISIBLE_CHARS[n] = \h200D /\ hasEmojis)
           /\ O_INVISIBLE_CHARS[n] = u)

\* INVISIBLE_CHARS.forEach(code => { if (code === 0x200d && hasEmojis) return;
\*                                  result = result.replaceAll(fromCodePoint(code), "") })
\* every step deletes the occurrences of one code unit, so the loop keeps
\* exactly the code units that no executed step names
O_removeInvisible(s, hasEmojis) ==
  SelectSeq(s, LAMBDA u :
     ~\E n \in DOMAIN O_INVISIBLE_CHARS :
         /\ ~(O_INVISIBLE_CHARS[n] = \h200D /\ hasEmojis)
         /\ O_INVISIBLE_CHARS[n] = u)

\* UNICODE_SPACES.forEach(space => { result = result.replaceAll(space, " ") })
\* every step rewrites one code unit to U+0020, which no step matches
O_normalizeSpaces(s) ==
  join([i \in DOMAIN s |-> IF s[i] \in Range(O_UNICODE_SPACES) THEN <<32>> ELSE <<s[i]>>])

\* Object.entries(DASH_MAP).forEach(([from, to]) => { result = result.replaceAll(from, to) })
\* the value of result after the first n entries
RECURSIVE O_normalizeDashes(_, _)
O_normalizeDashes(s, n) ==
  IF n = 0 THEN s
  ELSE replaceAll(O_normalizeDashes(s, n - 1), O_DASH_MAP[n][1], O_DASH_MAP[n][2])

\* clean, lines 320-353: the replacement steps, given the merged options and
\* the flag hasEmojis computed from the whole input
O_cleanSteps(s, o, hasEmojis) ==
  LET r1 == IF o.invisible
            THEN LET removed == O_removeInvisible(s, hasEmojis)
                 IN  IF ~hasEmojis THEN replaceAll(removed, \h200D, <<>>) ELSE removed
            ELSE s
      r2 == IF o.spaces THEN O_normalizeSpaces(r1) ELSE r1
      r3 == IF o.dashes THEN O_normalizeDashes(r2, Len(O_DASH_MAP)) ELSE r2
      r4 == IF o.ellipsis THEN replaceAll(r3, \h2026, <<46, 46, 46>>) ELSE r3
  IN  r4

\* clean(text, options)
O_clean(s, options) == O_cleanSteps(s, O_mergeOptions(options), O_containsEmoji(s))

(***************************************************************************)
(* Presets variant (src/index.ts).                                         *)
(***************************************************************************)
P_presets ==
  [strict   |-> [preserveLineBreaks |-> FALSE, preserveTabs |-> FALSE,
                 normalizeSpaces |-> TRUE, normalizeQuotes |-> TRUE,
                 normalizeDashes |-> TRUE, normalizeEllipsis |-> TRUE,
                 collapseWhitespace |-> TRUE, trim |-> TRUE],
   standard |-> [preserveLineBreaks |-> TRUE, preserveTabs |-> FALSE,
                 normalizeSpaces |-> TRUE, normalizeQuotes |-> TRUE,
                 normalizeDashes |-> TRUE, normalizeEllipsis |-> TRUE,
                 collapseWhitespace |-> FALSE, trim |-> TRUE],
   lenient  |-> [preserveLineBreaks |-> TRUE, preserveTabs |-> TRUE,
                 normalizeSpaces |-> TRUE, normalizeQuotes |-> FALSE,
                 normalizeDashes |-> FALSE, normalizeEllipsis |-> FALSE,
                 collapseWhitespace |-> FALSE, trim |-> FALSE],
   llm      |-> [preserveLineBreaks |-> TRUE, preserveTabs |-> FALSE,
                 normalizeSpaces |-> TRUE, normalizeQuotes |-> TRUE,
                 normalizeDashes |-> TRUE, normalizeEllipsis |-> TRUE,
                 collapseWhitespace |-> TRUE, trim |-> TRUE]]

P_defaultOptions ==
  [preserveLineBreaks |-> TRUE, preserveTabs |-> FALSE,
   normalizeSpaces |-> TRUE, normalizeQuotes |-> TRUE,
   normalizeDashes |-> TRUE, normalizeEllipsis |-> TRUE,
   collapseWhitespace |-> FALSE, trim |-> TRUE]

\* { ...base, ...options }: the fields of options override those of base
P_spread(base, options) ==
  [k \in DOMAIN base \cup DOMAIN options |->
     IF k \in DOMAIN options THEN options[k] ELSE base[k]]

P_UNICODE_SPACES ==
  << \h00A0, \h1680, \h2000, \h2001, \h2002, \h2003, \h2004, \h2005,
     \h2006, \h2007, \h2008, \h2009, \h200A, \h202F, \h205F, \h3000 >>

\* Object.entries({ ...SINGLE_QUOTE_MAP, ...DOUBLE_QUOTE_MAP }): <<unicode, ascii>>
P_QUOTE_MAP ==
  << <<\h2018, <<39>>>>, <<\h2019, <<39>>>>, <<\h201A, <<39>>>>, <<\h201B, <<39>>>>,
     <<\h2039, <<39>>>>, <<\h203A, <<39>>>>,
     <<\h201C, <<34>>>>, <<\h201D, <<34>>>>, <<\h201E, <<34>>>>, <<\h201F, <<34>>>>,
     <<\h00AB, <<34>>>>, <<\h00BB, <<34>>>> >>

\* Object.entries(DASH_MAP): <<unicode, ascii>>
P_DASH_MAP ==
  << <<\h2013, <<45>>>>, <<\h2014, <<45>>>>, <<\h2015, <<45>>>>,
     <<\h2212, <<45>>>>, <<\hFE58, <<45>>>>, <<\hFE63, <<45>>>> >>

P_INVISIBLE_CHARS ==
  << \h0000, \h00AD, \h200B, \h200C, \h200D, \h200E, \h200F,
     \h202A, \h202B, \h202C, \h202D, \h202E,
     \h2060, \h2061, \h2062, \h2063, \h2064,
     \h2066, \h2067, \h2068, \h2069,
     \hFEFF, \hFFFC, \hFFFD >>

P_EMOJI_INVISIBLE_CHARS == << \h200D >>

\* VARIATION_SELECTORS_REGEX, /[\uFE00-\uFE0F]/g, matches these code units
P_VARIATION_SELECTORS_REGEX == \hFE00 .. \hFE0F

\* CHAR_NAMES: <<code, name>>, one entry per key of the object literal
P_CHAR_NAMES ==
  << <<\h0000, "NUL">>, <<\h0009, "TAB">>,
     <<\h000A, "LF">>, <<\h000D, "CR">>,
     <<\h00A0, "NBSP">>, <<\h1680, "OGHAM_SPACE_MARK">>,
     <<\h2000, "EN_QUAD">>, <<\h2001, "EM_QUAD">>,
     <<\h2002, "EN_SPACE">>, <<\h2003, "EM_SPACE">>,
     <<\h2004, "THREE_PER_EM_SPACE">>, <<\h2005, "FOUR_PER_EM_SPACE">>,
     <<\h2006, "SIX_PER_EM_SPACE">>, <<\h2007, "FIGURE_SPACE">>,
     <<\h2008, "PUNCTUATION_SPACE">>, <<\h2009, "THIN_SPACE">>,
     <<\h200A, "HAIR_SPACE">>, <<\h200B, "ZERO_WIDTH_SPACE">>,
     <<\h200C, "ZERO_WIDTH_NON_JOINER">>, <<\h200D, "ZERO_WIDTH_JOINER">>,
     <<\h202F, "NARROW_NO_BREAK_SPACE">>, <<\h205F, "MEDIUM_MATHEMATICAL_SPACE">>,
     <<\h2060, "WORD_JOINER">>, <<\h3000, "IDEOGRAPHIC_SPACE">>,
     <<\hFEFF, "ZERO_WIDTH_NO_BREAK_SPACE">>, <<\h2018, "LEFT_SINGLE_QUOTATION_MARK">>,
     <<\h2019, "RIGHT_SINGLE_QUOTATION_MARK">>, <<\h201A, "SINGLE_LOW_9_QUOTATION_MARK">>,
     <<\h201B, "SINGLE_HIGH_REVERSED_9_QUOTATION_MARK">>, <<\h201C, "LEFT_DOUBLE_QUOTATION_MARK">>,
     <<\h201D, "RIGHT_DOUBLE_QUOTATION_MARK">>, <<\h201E, "DOUBLE_LOW_9_QUOTATION_MARK">>,
     <<\h201F, "DOUBLE_HIGH_REVERSED_9_QUOTATION_MARK">>, <<\h2039, "SINGLE_LEFT_POINTING_ANGLE_QUOTATION_MARK">>,
     <<\h203A, "SINGLE_RIGHT_POINTING_ANGLE_QUOTATION_MARK">>, <<\h00AB, "LEFT_POINTING_DOUBLE_ANGLE_QUOTATION_MARK">>,
     <<\h00BB, "RIGHT_POINTING_DOUBLE_ANGLE_QUOTATION_MARK">>, <<\h2013, "EN_DASH">>,
     <<\h2014, "EM_DASH">>, <<\h2015, "HORIZONTAL_BAR">>,
     <<\h2016, "DOUBLE_VERTICAL_LINE">>, <<\h2026, "HORIZONTAL_ELLIPSIS">>,
     <<\h00AD, "SOFT_HYPHEN">>, <<\h200E, "LEFT_TO_RIGHT_MARK">>,
     <<\h200F, "RIGHT_TO_LEFT_MARK">>, <<\h202A, "LEFT_TO_RIGHT_EMBEDDING">>,
     <<\h202B, "RIGHT_TO_LEFT_EMBEDDING">>, <<\h202C, "POP_DIRECTIONAL_FORMATTING">>,
     <<\h202D, "LEFT_TO_RIGHT_OVERRIDE">>, <<\h202E, "RIGHT_TO_LEFT_OVERRIDE">>,
     <<\h2061, "FUNCTION_APPLICATION">>, <<\h2062, "INVISIBLE_TIMES">>,
     <<\h2063, "INVISIBLE_SEPARATOR">>, <<\h2064, "INVISIBLE_PLUS">>,
     <<\h2066, "LEFT_TO_RIGHT_ISOLATE">>, <<\h2067, "RIGHT_TO_LEFT_ISOLATE">>,
     <<\h2068, "FIRST_STRONG_ISOLATE">>, <<\h2069, "POP_DIRECTIONAL_ISOLATE">>,
     <<\h2212, "MINUS_SIGN">>, <<\hFE58, "SMALL_EM_DASH">>,
     <<\hFE63, "SMALL_HYPHEN_MINUS">>, <<\hFFFC, "OBJECT_REPLACEMENT_CHARACTER">>,
     <<\hFFFD, "REPLACEMENT_CHARACTER">> >>

\* the digits of Number.prototype.toString(16), in upper case
HexDigits ==
  << "0", "1", "2", "3", "4", "5", "6", "7", "8", "9", "A", "B", "C", "D", "E", "F" >>

\* code.toString(16).toUpperCase(): the string as the sequence of its digits
RECURSIVE toString16Upper(_)
toString16Upper(n) ==
  IF n < 16 THEN <<HexDigits[n + 1]>>
  ELSE Append(toString16Upper(n \div 16), HexDigits[(n % 16) + 1])

\* str.padStart(targetLength, fill) for a fill of one character
RECURSIVE padStart(_, _, _)
padStart(str, targetLength, fill) ==
  IF Len(str) >= targetLength THEN str
  ELSE padStart(<<fill>> \o str, targetLength, fill)

\* `U+${code.toString(16).toUpperCase().padStart(4, '0')}`, as the sequence
\* of its characters
P_codeHex(code) == <<"U", "+">> \o padStart(toString16Upper(code), 4, "0")

\* getCharName(code): CHAR_NAMES[code] ?? the U+ form.  A name of the table
\* is the one-element sequence of the whole name; no name of the table has
\* the U+ form, so two modelled names are equal exactly when the strings are
P_getCharName(code) ==
  IF \E i \in DOMAIN P_CHAR_NAMES : P_CHAR_NAMES[i][1] = code
  THEN <<P_CHAR_NAMES[CHOOSE i \in DOMAIN P_CHAR_NAMES : P_CHAR_NAMES[i][1] = code][2]>>
  ELSE P_codeHex(code)

\* isActualEmoji(char)
P_isActualEmoji(char) ==
  LET code == codePointAt0(char)
  IN  IF code = 0 THEN FALSE
      ELSE \/ (code >= \h1F600 /\ code <= \h1F64F)
           \/ (code >= \h1F300 /\ code <= \h1F5FF)
           \/ (code >= \h1F680 /\ code <= \h1F6FF)
           \/ (code >= \h1F700 /\ code <= \h1F77F)
           \/ (code >= \h1F780 /\ code <= \h1F7FF)
           \/ (code >= \h1F800 /\ code <= \h1F8FF)
           \/ (code >= \h1F900 /\ code <= \h1F9FF)
           \/ (code >= \h1FA00 /\ code <= \h1FA6F)
           \/ (code >= \h1FA70 /\ code <= \h1FAFF)
           \/ (code >= \h2600 /\ code <= \h26FF)
           \/ (code >= \h2700 /\ code <= \h27BF)
           \/ (code >= \h1F1E6 /\ code <= \h1F1FF)
           \/ (code >= \h1F191 /\ code <= \h1F251)
           \/ (code >= \h1F100 /\ code <= \h1F1FF)
           \/ (code >= \h2300 /\ code <= \h23FF)
           \/ (code >= \h2B50 /\ code <= \h2B55)

\* isEmoji(char)
P_isEmoji(char) ==
  LET code == codePointAt0(char)
  IN  IF code = 0 THEN FALSE
      ELSE \/ P_isActualEmoji(char)
           \/ (code >= \hFE00 /\ code <= \hFE0F)
           \/ code = \h200D
           \/ (code >= \h1F3FB /\ code <= \h1F3FF)

\* isKeyboardChar(char)
P_isKeyboardChar(char) ==
  IF Len(char) = 0 THEN FALSE
  ELSE LET code == charCodeAt0(char)
       IN  IF (code >= 32 /\ code <= 126) \/ code = 9 \/ code = 10 \/ code = 13
           THEN TRUE
           ELSE IF P_isEmoji(char) THEN TRUE
           ELSE FALSE

\* normalizeSpaces(text): every step rewrites one code unit of UNICODE_SPACES
\* to U+0020, which no step matches
P_normalizeSpaces(s) ==
  join([i \in DOMAIN s |-> IF s[i] \in Range(P_UNICODE_SPACES) THEN <<32>> ELSE <<s[i]>>])

\* the reduce of normalizeQuotes / normalizeDashes over the first n entries:
\* result.replaceAll(unicode, ascii) for each entry in turn
RECURSIVE P_reduceReplace(_, _, _)
P_reduceReplace(entries, n, s) ==
  IF n = 0 THEN s
  ELSE replaceAll(P_reduceReplace(entries, n - 1, s), entries[n][1], entries[n][2])

\* normalizeQuotes(text)
P_normalizeQuotes(s) == P_reduceReplace(P_QUOTE_MAP, Len(P_QUOTE_MAP), s)

\* normalizeDashes(text)
P_normalizeDashes(s) == P_reduceReplace(P_DASH_MAP, Len(P_DASH_MAP), s)

\* normalizeEllipsis(text)
P_normalizeEllipsis(s) == replaceAll(s, \h2026, <<46, 46, 46>>)

\* containsEmoji(text)
P_containsEmoji(s) ==
  LET chars == ArrayFrom(s)
  IN  \E i \in DOMAIN chars : P_isActualEmoji(chars[i])

\* removeInvisibleChars(text): the variation selectors are deleted first, then
\* each step deletes the occurrences of one code unit of INVISIBLE_CHARS
P_removeInvisibleChars(s) ==
  SelectSeq(SelectSeq(s, LAMBDA u : u \notin P_VARIATION_SELECTORS_REGEX),
            LAMBDA u : u \notin Range(P_INVISIBLE_CHARS))

\* mutant: the strict removal is applied whether or not the text has an emoji
P_removeInvisibleCharsExceptEmoji_strict(s) == P_removeInvisibleChars(s)

\* mutant: with an emoji present the variation selectors are deleted as well
P_removeInvisibleCharsExceptEmoji_dropSelectors(s) ==
  IF ~P_containsEmoji(s) THEN P_removeInvisibleChars(s)
  ELSE LET charsToRemove == SelectSeq(P_INVISIBLE_CHARS,
                               LAMBDA c : c \notin Range(P_EMOJI_INVISIBLE_CHARS))
       IN  SelectSeq(s, LAMBDA u : u \notin Range(charsToRemove)
                                   /\ u \notin P_VARIATION_SELECTORS_REGEX)

\* removeInvisibleCharsExceptEmoji(text)
P_removeInvisibleCharsExceptEmoji(s) ==
  IF ~P_containsEmoji(s) THEN P_removeInvisibleChars(s)
  ELSE LET charsToRemove == SelectSeq(P_INVISIBLE_CHARS,
                               LAMBDA c : c \notin Range(P_EMOJI_INVISIBLE_CHARS))
       IN  SelectSeq(s, LAMBDA u : u \notin Range(charsToRemove))

\* mutant: every char of two code units is taken for an emoji
P_filterChars_anyAstral(s, preserveLineBreaks, preserveTabs) ==
  join(SelectSeq(ArrayFrom(s), LAMBDA char :
         LET code == charCodeAt0(char)
         IN  \/ (code >= 32 /\ code <= 126)
             \/ (preserveLineBreaks /\ (code = 10 \/ code = 13))
             \/ (preserveTabs /\ code = 9)
             \/ Len(char) = 2
             \/ P_isEmoji(char)))

\* mutant: the printable range has no upper end
P_filterChars_noUpperBound(s, preserveLineBreaks, preserveTabs) ==
  join(SelectSeq(ArrayFrom(s), LAMBDA char :
         LET code == charCodeAt0(char)
         IN  \/ code >= 32
             \/ (preserveLineBreaks /\ (code = 10 \/ code = 13))
             \/ (preserveTabs /\ code = 9)
             \/ P_isEmoji(char)))

\* mutant: TAB is kept whatever preserveTabs says
P_filterChars_keepTabs(s, preserveLineBreaks, preserveTabs) ==
  join(SelectSeq(ArrayFrom(s), LAMBDA char :
         LET code == charCodeAt0(char)
         IN  \/ (code >= 32 /\ code <= 126)
             \/ (preserveLineBreaks /\ (code = 10 \/ code = 13))
             \/ code = 9
             \/ P_isEmoji(char)))

\* filterChars(text, preserveLineBreaks, preserveTabs)
P_filterChars(s, preserveLineBreaks, preserveTabs) ==
  join(SelectSeq(ArrayFrom(s), LAMBDA char :
         LET code == charCodeAt0(char)
         IN  \/ (code >= 32 /\ code <= 126)
             \/ (preserveLineBreaks /\ (code = 10 \/ code = 13))
             \/ (preserveTabs /\ code = 9)
             \/ P_isEmoji(char)))

\* the code units that \s matches and that String.prototype.trim strips:
\* WhiteSpace and LineTerminator of ECMAScript
JsWhiteSpace ==
  {\h0009, \h000A, \h000B, \h000C, \h000D, \h0020, \h00A0, \h1680}
    \cup (\h2000 .. \h200A)
    \cup {\h2028, \h2029, \h202F, \h205F, \h3000, \hFEFF}

\* mutant: the pattern lacks the +, every code unit of the class becomes a
\* U+0020 of its own
replaceRuns_each(s, class) ==
  [i \in DOMAIN s |-> IF s[i] \in class THEN 32 ELSE s[i]]

\* text.replace(/[class]+/g, ' '): every maximal run of code units of the
\* class becomes one U+0020
RECURSIVE replaceRuns(_, _)
replaceRuns(s, class) ==
  IF s = <<>> THEN <<>>
  ELSE IF Head(s) \in class
       THEN IF Len(s) >= 2 /\ s[2] \in class
            THEN replaceRuns(Tail(s), class)
            ELSE <<32>> \o replaceRuns(Tail(s), class)
       ELSE <<Head(s)>> \o replaceRuns(Tail(s), class)

\* mutant: the preserveTabs branch collapses the tabs as well
P_collapseWhitespace_tabsToo(s, preserveLineBreaks, preserveTabs) ==
  IF preserveLineBreaks /\ preserveTabs THEN replaceRuns(s, {32, 9})
  ELSE IF preserveLineBreaks THEN replaceRuns(s, {32})
  ELSE IF preserveTabs THEN replaceRuns(s, {32, 9, 10, 13})
  ELSE replaceRuns(s, JsWhiteSpace)

\* collapseWhitespace(text, preserveLineBreaks, preserveTabs)
P_collapseWhitespace(s, preserveLineBreaks, preserveTabs) ==
  IF preserveLineBreaks /\ preserveTabs THEN replaceRuns(s, {32, 9})
  ELSE IF preserveLineBreaks THEN replaceRuns(s, {32})
  ELSE IF preserveTabs THEN replaceRuns(s, {32, 10, 13})
  ELSE replaceRuns(s, JsWhiteSpace)

\* t.trim()
RECURSIVE trimStart(_)
trimStart(s) ==
  IF s # <<>> /\ Head(s) \in JsWhiteSpace THEN trimStart(Tail(s)) ELSE s

RECURSIVE trimEnd(_)
trimEnd(s) ==
  IF s # <<>> /\ s[Len(s)] \in JsWhiteSpace THEN trimEnd(SubSeq(s, 1, Len(s) - 1)) ELSE s

trim(s) == trimEnd(trimStart(s))

\* mutant: whitespace is collapsed before the characters are filtered
P_sanitize_collapseFirst(s, options) ==
  LET o  == P_spread(P_defaultOptions, options)
      t1 == P_removeInvisibleCharsExceptEmoji(s)
      t2 == IF o.normalizeSpaces THEN P_normalizeSpaces(t1) ELSE t1
      t3 == IF o.normalizeQuotes THEN P_normalizeQuotes(t2) ELSE t2
      t4 == IF o.normalizeDashes THEN P_normalizeDashes(t3) ELSE t3
      t5 == IF o.normalizeEllipsis THEN P_normalizeEllipsis(t4) ELSE t4
      t6 == IF o.collapseWhitespace
            THEN P_collapseWhitespace(t5, o.preserveLineBreaks, o.preserveTabs)
            ELSE t5
      t7 == P_filterChars(t6, o.preserveLineBreaks, o.preserveTabs)
      t8 == IF o.trim THEN trim(t7) ELSE t7
  IN  t8

\* sanitize, the transformations after removeInvisibleCharsExceptEmoji: t1 is
\* the result of that first one, o the merged options (opts)
P_sanitizeRest(t1, o) ==
  LET t2 == IF o.normalizeSpaces THEN P_normalizeSpaces(t1) ELSE t1
      t3 == IF o.normalizeQuotes THEN P_normalizeQuotes(t2) ELSE t2
      t4 == IF o.normalizeDashes THEN P_normalizeDashes(t3) ELSE t3
      t5 == IF o.normalizeEllipsis THEN P_normalizeEllipsis(t4) ELSE t4
      t6 == P_filterChars(t5, o.preserveLineBreaks, o.preserveTabs)
      t7 == IF o.collapseWhitespace
            THEN P_collapseWhitespace(t6, o.preserveLineBreaks, o.preserveTabs)
            ELSE t6
      t8 == IF o.trim THEN trim(t7) ELSE t7
  IN  t8

\* sanitize(text, options): the pipeline of the eight transformations
P_sanitize(s, options) ==
  P_sanitizeRest(P_removeInvisibleCharsExceptEmoji(s), P_spread(P_defaultOptions, options))

\* mutant: the spread is reversed, the preset overrides the caller's options
P_clean_presetWins(s, options) == P_sanitize(s, P_spread(options, P_presets.standard))

\* clean(text, options)
P_clean(s, options) == P_sanitize(s, P_spread(P_presets.standard, options))

\* the UTF-16 offset of the n-th element of chars
RECURSIVE unitOffset(_, _)
unitOffset(chars, n) ==
  IF n <= 1 THEN 0 ELSE unitOffset(chars, n - 1) + Len(chars[n - 1])

\* mutant: position is the UTF-16 code-unit offset of the char
P_detectNonKeyboardChars_unitOffset(s) ==
  LET chars == ArrayFrom(s)
      found == SelectSeq([i \in DOMAIN chars |-> i],
                         LAMBDA i : ~P_isKeyboardChar(chars[i]))
  IN  [j \in DOMAIN found |->
         LET code == charCodeAt0(chars[found[j]])
         IN  [char     |-> chars[found[j]],
              code     |-> code,
              codeHex  |-> P_codeHex(code),
              position |-> unitOffset(chars, found[j]),
              name     |-> P_getCharName(code)]]

\* detectNonKeyboardChars(text): one Issue per code point that is not a
\* keyboard character, in input order; position is the index in
\* Array.from(text), code is char.charCodeAt(0)
P_detectNonKeyboardChars(s) ==
  LET chars == ArrayFrom(s)
      found == SelectSeq([i \in DOMAIN chars |-> i],
                         LAMBDA i : ~P_isKeyboardChar(chars[i]))
  IN  [j \in DOMAIN found |->
         LET code == charCodeAt0(chars[found[j]])
         IN  [char     |-> chars[found[j]],
              code     |-> code,
              codeHex  |-> P_codeHex(code),
              position |-> found[j] - 1,
              name     |-> P_getCharName(code)]]

\* one step of the reduce of createSummary:
\* { ...summary, [issue.name]: { count: existing ? existing.count + 1 : 1,
\*                               code: issue.codeHex } }
P_summaryStep(summary, issue) ==
  [k \in DOMAIN summary \cup {issue.name} |->
     IF k = issue.name
     THEN [count |-> IF issue.name \in DOMAIN summary
                     THEN summary[issue.name].count + 1 ELSE 1,
           code  |-> issue.codeHex]
     ELSE summary[k]]

\* mutant: the count of a name already present is not incremented
P_createSummary_noIncrement(list, n) ==
  LET names == {list[j].name : j \in 1 .. n}
  IN  [k \in names |->
         [count |-> 1,
          code  |-> list[CHOOSE j \in 1 .. n :
                           list[j].name = k /\ \A i \in j + 1 .. n : list[i].name # k].codeHex]]

\* createSummary(issues): the value of the reduce after the first n issues,
\* starting from the empty object
RECURSIVE P_createSummary(_, _)
P_createSummary(list, n) ==
  IF n = 0 THEN <<>>
  ELSE P_summaryStep(P_createSummary(list, n - 1), list[n])

\* isClean(text)
P_isClean(s) == Len(P_detectNonKeyboardChars(s)) = 0

\* findIssues(text)
P_findIssues(s) == P_detectNonKeyboardChars(s)

\* inspect(text)
P_inspect(s) ==
  LET found == P_detectNonKeyboardChars(s)
  IN  [clean |-> Len(found) = 0, issueCount |-> Len(found), issues |-> found,
       summary |-> P_createSummary(found, Len(found))]

\* Object.keys(presets), in insertion order
P_presetKeys == << "strict", "standard", "lenient", "llm" >>

\* names that every object literal inherits from Object.prototype
ObjectPrototypeKeys ==
  { "constructor", "toString", "toLocaleString", "valueOf", "hasOwnProperty",
    "isPrototypeOf", "propertyIsEnumerable", "__proto__" }

\* presets[preset]: the own property, else the member inherited from
\* Object.prototype (an object or function without own enumerable
\* properties), else undefined
P_presetsGet(preset) ==
  IF preset \in DOMAIN P_presets
  THEN [type |-> "object", properties |-> P_presets[preset]]
  ELSE IF preset \in ObjectPrototypeKeys
       THEN [type |-> "object", properties |-> <<>>]
       ELSE [type |-> "undefined"]

\* cleanWith(text, preset): the string returned, or the Error thrown with
\* its message as the sequence of its parts
P_cleanWith(s, preset) ==
  IF P_presetsGet(preset).type = "undefined"
  THEN [threw |-> TRUE,
        message |-> <<"Unknown preset: ", preset, ". Available: ",
                      P_presetKeys[1], ", ", P_presetKeys[2], ", ",
                      P_presetKeys[3], ", ", P_presetKeys[4]>>]
  ELSE [threw |-> FALSE, value |-> P_sanitize(s, P_presetsGet(preset).properties)]

\* cleanWith(text): preset takes its default value, 'standard'
P_cleanWithDefault(s) == P_cleanWith(s, "standard")

\* normalize(text)
P_normalize(s) ==
  P_sanitize(s, [preserveLineBreaks |-> TRUE, preserveTabs |-> TRUE,
                 normalizeSpaces |-> TRUE, normalizeQuotes |-> TRUE,
                 normalizeDashes |-> TRUE, normalizeEllipsis |-> TRUE,
                 collapseWhitespace |-> FALSE, trim |-> FALSE])

(***************************************************************************)
(* Presets variant: the calls as steps on the module-level objects.  Each  *)
(* operator below gives, for the module-level objects sh before the call,  *)
(* the value returned, the module-level objects after the call and the     *)
(* caller's options object after the call.                                 *)
(***************************************************************************)
\* mutant: the search starts at the regex's lastIndex and leaves lastIndex
\* after the last match, as exec and test do on a global regex
P_replaceVariationSelectors_fromLastIndex(s, lastIndex) ==
  LET from == IF lastIndex > Len(s) THEN Len(s) ELSE lastIndex
      hits == {i \in 1..Len(s) : i > from /\ s[i] \in P_VARIATION_SELECTORS_REGEX}
  IN  [result    |-> SubSeq(s, 1, from)
                       \o SelectSeq(SubSeq(s, from + 1, Len(s)),
                                    LAMBDA u : u \notin P_VARIATION_SELECTORS_REGEX),
       lastIndex |-> IF hits = {} THEN 0 ELSE CHOOSE i \in hits : \A j \in hits : j <= i]

\* text.replace(VARIATION_SELECTORS_REGEX, ''): String.prototype.replace on a
\* global regex sets lastIndex to 0, replaces every match from index 0 on,
\* and the failing last match leaves lastIndex at 0
P_replaceVariationSelectors(s, lastIndex) ==
  [result    |-> SelectSeq(s, LAMBDA u : u \notin P_VARIATION_SELECTORS_REGEX),
   lastIndex |-> 0]

\* removeInvisibleChars(text): replaced is the result of the replace of the
\* variation selectors, the INVISIBLE_CHARS are removed from it
P_removeInvisibleCharsOf(replaced) ==
  [result    |-> SelectSeq(replaced.result, LAMBDA u : u \notin Range(P_INVISIBLE_CHARS)),
   lastIndex |-> replaced.lastIndex]

\* removeInvisibleChars(text), given the regex's lastIndex
P_removeInvisibleCharsRun(s, lastIndex) ==
  P_removeInvisibleCharsOf(P_replaceVariationSelectors(s, lastIndex))

\* removeInvisibleCharsExceptEmoji(text), given the regex's lastIndex: the
\* regex is used only on the branch without emoji
P_removeInvisibleCharsExceptEmojiRun(s, lastIndex) ==
  IF ~P_containsEmoji(s) THEN P_removeInvisibleCharsRun(s, lastIndex)
  ELSE [result    |-> SelectSeq(s, LAMBDA u : u \notin
                          (Range(P_INVISIBLE_CHARS) \ Range(P_EMOJI_INVISIBLE_CHARS))),
        lastIndex |-> lastIndex]

\* mutant: the options are merged into defaultOptions itself, as
\* Object.assign(defaultOptions, options) does
P_sanitizeSteps_assign(first, o, options, sh) ==
  [result  |-> P_sanitizeRest(first.result, o),
   shared  |-> [sh EXCEPT !.lastIndex = first.lastIndex, !.defaultOptions = o],
   options |-> options]

\* sanitize, its steps on the module-level objects sh: first is the outcome
\* of removeInvisibleCharsExceptEmoji and o the merged options, a fresh
\* object; nothing is assigned to defaultOptions or to options
P_sanitizeSteps(first, o, options, sh) ==
  [result  |-> P_sanitizeRest(first.result, o),
   shared  |-> [sh EXCEPT !.lastIndex = first.lastIndex],
   options |-> options]

\* sanitize(text, options) on sh
P_sanitizeRun(s, options, sh) ==
  P_sanitizeSteps(P_removeInvisibleCharsExceptEmojiRun(s, sh.lastIndex),
                  P_spread(sh.defaultOptions, options), options, sh)

\* the outcome of a call: the value returned under the name field, the
\* module-level objects and the call with its options object after it
P_returns(field, run, call) ==
  [result |-> IF field = "value" THEN [threw |-> FALSE, value |-> run.result]
              ELSE [returned |-> run.result],
   shared |-> run.shared,
   call   |-> call]

\* clean(text, options) on sh: the options object spread over the preset is
\* not written
P_cleanRun(s, call, sh) ==
  P_returns("returned", P_sanitizeRun(s, P_spread(sh.presets.standard, call.arg), sh), call)

\* cleanWith(text, preset) on sh
P_cleanWithRun(s, call, sh) ==
  IF P_presetsGet(call.arg.preset).type = "undefined"
  THEN [result |-> P_cleanWith(s, call.arg.preset), shared |-> sh, call |-> call]
  ELSE P_returns("value",
                 P_sanitizeRun(s, IF call.arg.preset \in DOMAIN sh.presets
                                  THEN sh.presets[call.arg.preset] ELSE <<>>, sh),
                 call)

\* normalize(text) on sh
P_normalizeRun(s, call, sh) ==
  P_returns("returned",
            P_sanitizeRun(s, [preserveLineBreaks |-> TRUE, preserveTabs |-> TRUE,
                              normalizeSpaces |-> TRUE, normalizeQuotes |-> TRUE,
                              normalizeDashes |-> TRUE, normalizeEllipsis |-> TRUE,
                              collapseWhitespace |-> FALSE, trim |-> FALSE], sh),
            call)

\* one call of the public interface on sh.  call.op names the function and
\* call.arg holds its second argument: the options object of clean, the
\* preset name of cleanWith.  findIssues, isClean and inspect use no regex
\* and write nothing
P_callRun(call, s, sh) ==
  IF call.op = "clean" THEN P_cleanRun(s, call, sh)
  ELSE IF call.op = "cleanWith" THEN P_cleanWithRun(s, call, sh)
  ELSE IF call.op = "normalize" THEN P_normalizeRun(s, call, sh)
  ELSE IF call.op = "findIssues"
  THEN [result |-> [found |-> P_findIssues(s)], shared |-> sh, call |-> call]
  ELSE IF call.op = "isClean"
  THEN [result |-> [verdict |-> P_isClean(s)], shared |-> sh, call |-> call]
  ELSE [result |-> P_inspect(s), shared |-> sh, call |-> call]

\* the call made: its result, the module-level objects and the caller's
\* options object after it
P_Called(run) ==
  /\ out' = run.result
  /\ shared' = run.shared
  /\ opts' = run.call

\* the call made again: its result goes to out2
P_CalledAgain(run) ==
  /\ out2' = run.result
  /\ shared' = run.shared
  /\ opts' = run.call

(***************************************************************************)
(* Options variant: the calls a client makes.                              *)
(***************************************************************************)
\* code units the input strings are drawn from: TAB, NUL, ZWJ, NO-BREAK
\* SPACE, EM DASH, SOFT HYPHEN, HORIZONTAL ELLIPSIS, VARIATION SELECTOR-16,
\* and the surrogates D83D / DE00 (together U+1F600, alone unpaired)
O_Alphabet == {\h0009, \h0000, \h200D, \h00A0, \h2014, \h00AD, \h2026, \hFE0F, \hD83D, \hDE00}

\* control and formatting code units: TAB, LF, CR, NUL, NEXT LINE (a C1
\* control) and ZERO WIDTH SPACE
O_ControlAlphabet == {\h0009, \h000A, \h000D, \h0000, \h0085, \h200B}

O_Inputs == StringsUpTo(O_Alphabet, MaxLen) \cup StringsUpTo(O_ControlAlphabet, MaxLen)

O_Options == [invisible : BOOLEAN, spaces : BOOLEAN, dashes : BOOLEAN, ellipsis : BOOLEAN]

\* the module-level objects of the options variant that the calls read
O_ModuleInit == [defaultOptions |-> O_defaultOptions]

O_Init ==
  /\ text \in O_Inputs
  /\ opts \in O_Options
  /\ pc = "start"
  /\ out = <<>>
  /\ out2 = <<>>
  /\ issues = <<>>
  /\ verdict = FALSE
  /\ shared = O_ModuleInit

\* const once = clean(text, opts)
O_Clean ==
  /\ pc = "start"
  /\ out' = O_clean(text, opts)
  /\ pc' = "cleaned"
  /\ UNCHANGED <<text, opts, out2, issues, verdict, shared>>

\* const twice = clean(once, opts)
O_CleanAgain ==
  /\ pc = "cleaned"
  /\ out2' = O_clean(out, opts)
  /\ pc' = "recleaned"
  /\ UNCHANGED <<text, opts, out, issues, verdict, shared>>

\* const issues = inspect(text, opts)
O_Inspect ==
  /\ pc = "start"
  /\ issues' = O_inspect(text, opts)
  /\ pc' = "inspected"
  /\ UNCHANGED <<text, opts, out, out2, verdict, shared>>

\* const issues = inspect(once, opts)
O_InspectCleaned ==
  /\ pc = "cleaned"
  /\ issues' = O_inspect(out, opts)
  /\ pc' = "cleanedInspected"
  /\ UNCHANGED <<text, opts, out, out2, verdict, shared>>

\* const issues = inspect(text, opts); then const cleaned = clean(text, opts)
O_CleanInspected ==
  /\ pc = "inspected"
  /\ out' = O_clean(text, opts)
  /\ pc' = "inspectedCleaned"
  /\ UNCHANGED <<text, opts, out2, issues, verdict, shared>>

O_Next == O_Clean \/ O_CleanAgain \/ O_Inspect \/ O_InspectCleaned \/ O_CleanInspected

SpecOptions == O_Init /\ [][O_Next]_vars

(***************************************************************************)
(* Presets variant: the calls a client makes.                              *)
(***************************************************************************)
\* the input strings are drawn from groups of code units, one for each part
\* of the pipeline:
\*   emoji and their components: the surrogates D83D and DE00 (together
\*     U+1F600, an emoji; alone unpaired), ZWJ and VARIATION SELECTOR-16;
\*   astral and invisible characters: D83D, DE00, DE50 (with D83D U+1F650,
\*     not an emoji) and ZERO WIDTH SPACE;
\*   whitespace: 'a', SPACE, TAB and LF;
\*   Unicode spaces: SPACE, TAB and NO-BREAK SPACE;
\*   typography: LEFT SINGLE QUOTATION MARK, EM DASH, HORIZONTAL ELLIPSIS
\*     and the letter U+00E9;
\*   emoji modifiers: the surrogates D83C and DFFB (together U+1F3FB, a skin
\*     tone) and VARIATION SELECTOR-16
P_Groups ==
  { {\hD83D, \hDE00, \h200D, \hFE0F},
    {\hD83D, \hDE00, \hDE50, \h200B},
    {97, 32, \h0009, \h000A},
    {32, \h0009, \h00A0},
    {\h2018, \h2014, \h2026, \h00E9},
    {\hD83C, \hDFFB, \hFE0F} }

P_Inputs == UNION {StringsUpTo(G, MaxLen) : G \in P_Groups}

P_Options ==
  [preserveLineBreaks : BOOLEAN, preserveTabs : BOOLEAN,
   normalizeSpaces : BOOLEAN, normalizeQuotes : BOOLEAN,
   normalizeDashes : BOOLEAN, normalizeEllipsis : BOOLEAN,
   collapseWhitespace : BOOLEAN, trim : BOOLEAN]

\* the module-level objects of src/index.ts after the module is loaded: the
\* registry, the default options, the character tables, and the lastIndex of
\* the global regular expression VARIATION_SELECTORS_REGEX
P_ModuleInit ==
  [presets               |-> P_presets,
   defaultOptions        |-> P_defaultOptions,
   UNICODE_SPACES        |-> P_UNICODE_SPACES,
   QUOTE_MAP             |-> P_QUOTE_MAP,
   DASH_MAP              |-> P_DASH_MAP,
   INVISIBLE_CHARS       |-> P_INVISIBLE_CHARS,
   EMOJI_INVISIBLE_CHARS |-> P_EMOJI_INVISIBLE_CHARS,
   CHAR_NAMES            |-> P_CHAR_NAMES,
   lastIndex             |-> 0]

P_Init ==
  /\ text \in P_Inputs
  /\ opts = [none |-> TRUE]
  /\ pc = "start"
  /\ out = <<>>
  /\ out2 = <<>>
  /\ issues = <<>>
  /\ verdict = FALSE
  /\ shared = P_ModuleInit

\* const once = clean(text, c)
P_Clean ==
  /\ pc = "start"
  /\ \E c \in P_Options :
        /\ opts' = c
        /\ out' = P_clean(text, c)
  /\ pc' = "cleaned"
  /\ UNCHANGED <<text, out2, issues, verdict, shared>>

\* const twice = clean(once, c)
P_CleanAgain ==
  /\ pc = "cleaned"
  /\ out2' = P_clean(out, opts)
  /\ pc' = "recleaned"
  /\ UNCHANGED <<text, opts, out, issues, verdict, shared>>

\* isClean(once); inspect(once)
P_InspectCleaned ==
  /\ pc = "cleaned"
  /\ verdict' = P_isClean(out)
  /\ issues' = P_inspect(out)
  /\ pc' = "cleanedInspected"
  /\ UNCHANGED <<text, opts, out, out2, shared>>

P_Next == P_Clean \/ P_CleanAgain \/ P_InspectCleaned

SpecPresets == P_Init /\ [][P_Next]_vars

(***************************************************************************)
(* Presets variant: the other calls of the public interface, on the raw    *)
(* input.                                                                  *)
(***************************************************************************)
\* the input strings are drawn from three groups of code units:
\*   astral characters and letters: D83D, DE00, DE50 (D83D DE00 is U+1F600,
\*     an emoji; D83D DE50 is U+1F650, not an emoji), the letter U+00E9 and
\*     NO-BREAK SPACE;
\*   quotes and spacing: LEFT SINGLE QUOTATION MARK, LEFT-POINTING DOUBLE
\*     ANGLE QUOTATION MARK, ZERO WIDTH SPACE, 'a' and SPACE;
\*   controls and typography: NUL, TAB, LF, EM DASH, HORIZONTAL ELLIPSIS;
\*   emoji components without an emoji: ZWJ, VARIATION SELECTOR-16 and 'a'
P_ApiGroups ==
  { {\hD83D, \hDE00, \hDE50, \h00E9, \h00A0},
    {\h2018, \h00AB, \h200B, 97, 32},
    {\h0000, \h0009, \h000A, \h2014, \h2026},
    {\h200D, \hFE0F, 97} }

P_ApiInputs == UNION {StringsUpTo(G, MaxLen) : G \in P_ApiGroups}

\* the preset names a caller passes: the four keys, names that are no key,
\* and names that Object.prototype defines
P_PresetNameInputs ==
  { "strict", "standard", "lenient", "llm",
    "unknown", "", "Standard", "constructor", "__proto__" }

\* the partial options records a caller passes: {}, every record of one
\* field, and two records of several fields
P_PartialOptions ==
  {<<>>}
    \cup UNION {[{k} -> BOOLEAN] : k \in DOMAIN P_defaultOptions}
    \cup { [collapseWhitespace |-> TRUE, preserveLineBreaks |-> FALSE],
           [normalizeQuotes |-> FALSE, normalizeDashes |-> FALSE, trim |-> FALSE] }

P_ApiInit ==
  /\ text \in P_ApiInputs
  /\ opts = [none |-> TRUE]
  /\ pc = "start"
  /\ out = <<>>
  /\ out2 = <<>>
  /\ issues = <<>>
  /\ verdict = FALSE
  /\ shared = P_ModuleInit

\* clean(text): options takes its default value, {}
P_CleanDefault ==
  /\ pc = "start"
  /\ out' = P_clean(text, <<>>)
  /\ pc' = "cleanedDefault"
  /\ UNCHANGED <<text, opts, out2, issues, verdict, shared>>

\* cleanWith(text, preset): opts records the name passed, out is the
\* returned string or the thrown Error
P_CleanWith ==
  /\ pc = "start"
  /\ \E preset \in P_PresetNameInputs :
        /\ opts' = [preset |-> preset]
        /\ out' = P_cleanWith(text, preset)
  /\ pc' = "cleanedWith"
  /\ UNCHANGED <<text, out2, issues, verdict, shared>>

\* normalize(text)
P_Normalize ==
  /\ pc = "start"
  /\ out' = P_normalize(text)
  /\ pc' = "normalized"
  /\ UNCHANGED <<text, opts, out2, issues, verdict, shared>>

\* findIssues(text)
P_FindIssues ==
  /\ pc = "start"
  /\ issues' = P_findIssues(text)
  /\ pc' = "found"
  /\ UNCHANGED <<text, opts, out, out2, verdict, shared>>

\* inspect(text)
P_Inspect ==
  /\ pc = "start"
  /\ issues' = P_inspect(text)
  /\ pc' = "reported"
  /\ UNCHANGED <<text, opts, out, out2, verdict, shared>>

\* clean(text) is followed by cleanWith(text, 'standard')
P_CleanWithStandard ==
  /\ pc = "cleanedDefault"
  /\ out2' = P_cleanWith(text, "standard")
  /\ pc' = "comparedStandard"
  /\ UNCHANGED <<text, opts, out, issues, verdict, shared>>

\* clean(text) is followed by cleanWith(text)
P_CleanWithNoPreset ==
  /\ pc = "cleanedDefault"
  /\ out2' = P_cleanWithDefault(text)
  /\ pc' = "comparedNoPreset"
  /\ UNCHANGED <<text, opts, out, issues, verdict, shared>>

\* clean(text, o) for a partial options record o
P_CleanPartial ==
  /\ pc = "start"
  /\ \E o \in P_PartialOptions :
        /\ opts' = o
        /\ out' = P_clean(text, o)
  /\ pc' = "cleanedPartial"
  /\ UNCHANGED <<text, out2, issues, verdict, shared>>

\* isClean(text)
P_IsClean ==
  /\ pc = "start"
  /\ verdict' = P_isClean(text)
  /\ pc' = "checked"
  /\ UNCHANGED <<text, opts, out, out2, issues, shared>>

\* isClean(text) is followed by normalize(text)
P_NormalizeChecked ==
  /\ pc = "checked"
  /\ out' = P_normalize(text)
  /\ pc' = "checkedNormalized"
  /\ UNCHANGED <<text, opts, out2, issues, verdict, shared>>

P_ApiNext ==
  \/ P_CleanDefault \/ P_CleanWith \/ P_Normalize \/ P_FindIssues \/ P_Inspect
  \/ P_CleanWithStandard \/ P_CleanWithNoPreset \/ P_CleanPartial
  \/ P_IsClean \/ P_NormalizeChecked

SpecPresetsApi == P_ApiInit /\ [][P_ApiNext]_vars

(***************************************************************************)
(* Presets variant: sequences of calls on the module-level objects.  A     *)
(* call is made, any number of other calls follow, and the first call is   *)
(* made again with equal arguments.                                        *)
(***************************************************************************)
P_CallGroup == {\hFE0F, \hD83D, \hDE00, 97}

P_CallInputs == StringsUpTo(P_CallGroup, MaxLen)

\* the calls of the public interface: the function and its second argument
P_Calls ==
  {[op |-> "clean", arg |-> o] :
      o \in {<<>>, [trim |-> FALSE], [normalizeSpaces |-> FALSE, collapseWhitespace |-> FALSE]}}
  \cup {[op |-> "cleanWith", arg |-> [preset |-> n]] :
      n \in {"strict", "llm", "unknown", "constructor"}}
  \cup {[op |-> o, arg |-> <<>>] : o \in {"normalize", "findIssues", "isClean", "inspect"}}

\* the texts of the calls made in between: with and without emoji, with
\* variation selectors at different indexes
P_OtherInputs ==
  {<<>>, <<\hFE0F>>, <<97, \hFE0F>>, <<97, 97, \hFE0F, 97>>, <<\hD83D, \hDE00, \hFE0F>>}

P_CallsInit ==
  /\ text \in P_CallInputs
  /\ opts \in P_Calls
  /\ pc = "start"
  /\ out = <<>>
  /\ out2 = <<>>
  /\ issues = <<>>
  /\ verdict = FALSE
  /\ shared = P_ModuleInit

\* the call opts on text: out is its result, shared the module-level
\* objects and opts.arg the caller's options object after it
P_CallFirst ==
  /\ pc = "start"
  /\ P_Called(P_callRun(opts, text, shared))
  /\ pc' = "called"
  /\ UNCHANGED <<text, out2, issues, verdict>>

\* any other call in between; issues counts the calls made in between
P_CallOther ==
  /\ pc \in {"called", "between"}
  /\ Len(issues) < 1
  /\ \E call \in P_Calls, s \in P_OtherInputs :
       shared' = P_callRun(call, s, shared).shared
  /\ pc' = "between"
  /\ issues' = Append(issues, "call")
  /\ UNCHANGED <<text, opts, out, out2, verdict>>

\* the first call again, with equal arguments
P_CallAgain ==
  /\ pc \in {"called", "between"}
  /\ P_CalledAgain(P_callRun(opts, text, shared))
  /\ pc' = IF pc = "between" THEN "repeatedAfterOthers" ELSE "repeated"
  /\ UNCHANGED <<text, out, issues, verdict>>

P_CallsNext ==
  \/ P_CallFirst
  \/ P_CallOther
  \/ P_CallAgain

SpecPresetsCalls == P_CallsInit /\ [][P_CallsNext]_vars

\* C23: in the presets variant two calls with equal arguments return equal
\* results whatever calls ran in between, and the global regular expression
\* is left where it started, at lastIndex 0, by every call
C23_CallsHistoryIndependent ==
  /\ pc \in {"repeated", "repeatedAfterOthers"} => out2 = out
  /\ shared.lastIndex = 0

\* a call that uses the global regular expression and changes its text, made
\* again after another call
C23_Witness ==
  /\ pc = "repeatedAfterOthers"
  /\ opts.op = "clean"
  /\ \hFE0F \in Range(text)
  /\ ~P_containsEmoji(text)
  /\ out2.returned # text

\* C24: in the presets variant, after any sequence of calls the presets
\* registry, defaultOptions and every character table equal their initial
\* values, and the options object passed by the caller is unchanged
C24_NoSharedWrites ==
  /\ [](/\ shared.presets = P_presets
        /\ shared.defaultOptions = P_defaultOptions
        /\ shared.UNICODE_SPACES = P_UNICODE_SPACES
        /\ shared.QUOTE_MAP = P_QUOTE_MAP
        /\ shared.DASH_MAP = P_DASH_MAP
        /\ shared.INVISIBLE_CHARS = P_INVISIBLE_CHARS
        /\ shared.EMOJI_INVISIBLE_CHARS = P_EMOJI_INVISIBLE_CHARS
        /\ shared.CHAR_NAMES = P_CHAR_NAMES)
  /\ [][opts' = opts]_vars

\* calls with an options object that differs from the defaults were made
C24_Witness ==
  /\ pc = "repeatedAfterOthers"
  /\ opts.op = "clean"
  /\ opts.arg = [trim |-> FALSE]
  /\ shared.defaultOptions.trim

(***************************************************************************)
(* Vocabulary of the properties.                                           *)
(***************************************************************************)
\* a is a subsequence of b: the elements of a occur in b, in the same order
RECURSIVE IsSubseq(_, _)
IsSubseq(a, b) ==
  IF a = <<>> THEN TRUE
  ELSE IF b = <<>> THEN FALSE
  ELSE IF Head(a) = Head(b) THEN IsSubseq(Tail(a), Tail(b))
  ELSE IsSubseq(a, Tail(b))

\* the code units of s that belong to the set S, in order
Proj(s, S) == SelectSeq(s, LAMBDA u : u \in S)

\* the code points of s, as numbers
Scalars(s) ==
  LET chars == ArrayFrom(s)
  IN  [i \in DOMAIN chars |-> codePointAt0(chars[i])]

\* s has a scalar value in one of the ranges containsEmoji tests
O_HasEmojiScalar(s) ==
  LET scalars == Scalars(s)
  IN  \E i \in DOMAIN scalars : O_inEmojiRanges(scalars[i])

\* the characters of each category of the options variant
O_InvisibleCategory == Range(O_INVISIBLE_CHARS) \cup {\h200D}
O_SpacesCategory == Range(O_UNICODE_SPACES)
O_DashesCategory == {O_DASH_MAP[i][1] : i \in DOMAIN O_DASH_MAP}
O_EllipsisCategory == {\h2026}
O_Recognized ==
  O_InvisibleCategory \cup O_SpacesCategory \cup O_DashesCategory \cup O_EllipsisCategory

\* the zero-based positions that a list of issues reports
IssuePositions(list) == {list[j].position : j \in DOMAIN list}

(***************************************************************************)
(* Properties of the options variant.                                      *)
(***************************************************************************)
\* C2: clean is idempotent under fixed options: cleaning the output of
\* clean(s, c) again with the same c returns it unchanged.
C2_CleanIdempotent == pc = "recleaned" => out2 = out

\* C2 witness: a second cleaning of an output in which the first cleaning
\* joined two unpaired surrogates into an emoji
C2_Witness ==
  /\ pc = "recleaned"
  /\ ~O_HasEmojiScalar(text)
  /\ O_HasEmojiScalar(out)

\* C4: inspecting cleaned text with the same options finds nothing.
C4_InspectAfterCleanEmpty == pc = "cleanedInspected" => issues = <<>>

\* C6: with the invisible option enabled, clean removes every U+200D when
\* the input has no emoji scalar value and keeps every U+200D when it has one.
C6_ZwjWholeStringRule ==
  (pc = "cleaned" /\ opts.invisible) =>
     IF O_HasEmojiScalar(text)
     THEN Proj(out, {\h200D}) = Proj(text, {\h200D})
     ELSE Proj(out, {\h200D}) = <<>>

\* C6 witness: an input whose U+200D precedes its emoji, and is kept
C6_Witness ==
  /\ pc = "cleaned"
  /\ opts.invisible
  /\ Len(text) = 3
  /\ text[1] = \h200D
  /\ O_HasEmojiScalar(text)
  /\ Proj(out, {\h200D}) = <<\h200D>>

\* what a disabled category leaves alone: no Issue names one of its
\* characters, and clean keeps its characters as they are, in order
O_Gated(category) ==
  /\ pc = "inspected" =>
        \A j \in DOMAIN issues : issues[j].char \notin {<<u>> : u \in category}
  /\ pc = "cleaned" => Proj(out, category) = Proj(text, category)

\* C7: a category whose toggle is false is untouched by inspect and clean.
C7_CategoryGating ==
  /\ ~opts.invisible => O_Gated(O_InvisibleCategory)
  /\ ~opts.spaces => O_Gated(O_SpacesCategory)
  /\ ~opts.dashes => O_Gated(O_DashesCategory)
  /\ ~opts.ellipsis => O_Gated(O_EllipsisCategory)

\* C7 witness: dashes disabled and present, while another category is reported
C7_Witness ==
  /\ pc = "inspected"
  /\ ~opts.dashes
  /\ Proj(text, O_DashesCategory) # <<>>
  /\ issues # <<>>

\* C9: inspect records an Issue at a position exactly when clean removes or
\* substitutes the character at that position (the steps of clean, run with
\* the whole-string emoji flag, change that character).
C9_InspectAgreesWithClean ==
  pc = "inspected" =>
     \A i \in DOMAIN ArrayFrom(text) :
        (i - 1 \in IssuePositions(issues)) <=>
        (O_cleanSteps(ArrayFrom(text)[i], O_mergeOptions(opts), O_containsEmoji(text))
           # ArrayFrom(text)[i])

\* C10: the code units of every unrecognized character of the input occur
\* unchanged in the output, in their original order.
C10_UnrecognizedPreserved ==
  pc = "cleaned" =>
     IsSubseq(SelectSeq(text, LAMBDA u : u \notin O_Recognized), out)

\* C10 witness: a TAB is kept while a recognized character is cleaned away
C10_Witness ==
  /\ pc = "cleaned"
  /\ Proj(text, {\h0009}) # <<>>
  /\ Proj(out, {\h0009}) = Proj(text, {\h0009})
  /\ out # text

\* the C0 and C1 control characters other than TAB, LF and CR
ControlsExceptTabLfCr ==
  ((\h0000 .. \h001F) \cup (\h007F .. \h009F)) \ {\h0009, \h000A, \h000D}

\* the zero-width and formatting characters the documentation lists
ZeroWidthListed ==
  {\h200B, \h200C, \h200E, \h200F, \hFEFF} \cup (\h2060 .. \h2064)

\* C18: with the invisible option enabled, clean(s, c) has no C0 / C1 control
\* character other than TAB, LF, CR and none of the listed zero-width
\* characters, and every TAB, LF and CR of s is kept.
C18_ControlsRemoved ==
  (pc = "cleaned" /\ opts.invisible) =>
     /\ Proj(out, ControlsExceptTabLfCr \cup ZeroWidthListed) = <<>>
     /\ Proj(out, {\h0009, \h000A, \h000D}) = Proj(text, {\h0009, \h000A, \h000D})

\* C18 witness: a C1 control and a zero-width space are removed from around
\* a line break, which is kept
C18_Witness ==
  /\ pc = "cleaned"
  /\ opts.invisible
  /\ Proj(text, \h0080 .. \h009F) # <<>>
  /\ Proj(text, ZeroWidthListed) # <<>>
  /\ out = <<\h000A>>

\* C26: text in which inspect finds nothing is a fixed point of clean: if
\* inspect(s, c) is the empty list then clean(s, c) = s.
C26_CleanFixesInspectedClean ==
  (pc = "inspectedCleaned" /\ issues = <<>>) => out = text

\* C26 witness: nothing is reported for a text with a character of a disabled
\* category, and clean returns the text
C26_Witness ==
  /\ pc = "inspectedCleaned"
  /\ issues = <<>>
  /\ Len(text) = 3
  /\ Proj(text, O_Recognized) # <<>>
  /\ out = text

\* the unpaired surrogate code units of s, in order
UnpairedSurrogates(s) ==
  LET chars == ArrayFrom(s)
  IN  join(SelectSeq(chars, LAMBDA char :
              Len(char) = 1 /\ (isHighSurrogate(char[1]) \/ isLowSurrogate(char[1]))))

\* C28: clean and inspect return for every input (the empty string, a string
\* of flagged characters only, a string with unpaired surrogates), and an
\* unpaired surrogate is never removed, substituted or reported.
C28_SurrogatesPassThrough ==
  /\ pc \in {"cleaned", "inspectedCleaned"} =>
        /\ IsSubseq(UnpairedSurrogates(text), out)
        /\ text = <<>> => out = <<>>
        /\ \A i \in DOMAIN out : out[i] \in 0 .. \hFFFF
  /\ pc = "inspected" =>
        /\ \A j \in DOMAIN issues :
              ~(Len(issues[j].char) = 1
                  /\ (isHighSurrogate(issues[j].char[1]) \/ isLowSurrogate(issues[j].char[1])))
        /\ text = <<>> => issues = <<>>

\* C28 witness: an unpaired surrogate stands beside a flagged character, and
\* only the latter is reported
C28_Witness ==
  /\ pc = "inspected"
  /\ UnpairedSurrogates(text) # <<>>
  /\ Len(issues) = 2

\* C29: if no scalar value of s is in the ranges of containsEmoji, then no
\* scalar value of clean(s, c) is.
C29_CleanCreatesNoEmoji ==
  (pc = "cleaned" /\ ~O_HasEmojiScalar(text)) => ~O_HasEmojiScalar(out)

(***************************************************************************)
(* Properties of the presets variant.                                      *)
(***************************************************************************)
\* the characters of each typography category of the presets variant
P_SpacesCategory == Range(P_UNICODE_SPACES)
P_QuotesCategory == {P_QUOTE_MAP[i][1] : i \in DOMAIN P_QUOTE_MAP}
P_DashesCategory == {P_DASH_MAP[i][1] : i \in DOMAIN P_DASH_MAP}
P_EllipsisCategory == {\h2026}

\* char is a skin-tone modifier, a variation selector, the zero-width joiner
IsSkinTone(char) == codePointAt0(char) >= \h1F3FB /\ codePointAt0(char) <= \h1F3FF
IsVariationSelector(char) == codePointAt0(char) >= \hFE00 /\ codePointAt0(char) <= \hFE0F
IsZwj(char) == codePointAt0(char) = \h200D

\* the chars of s that the emoji invariance speaks of: the actual emoji and
\* the skin tones and, when s has an actual emoji, the variation selectors
\* and U+200D
P_EmojiChars(s) ==
  LET chars == ArrayFrom(s)
      hasEmoji == \E i \in DOMAIN chars : P_isActualEmoji(chars[i])
  IN  SelectSeq(chars, LAMBDA char :
         \/ P_isActualEmoji(char)
         \/ IsSkinTone(char)
         \/ (hasEmoji /\ (IsVariationSelector(char) \/ IsZwj(char))))

\* C1: clean is idempotent under a fixed options record: cleaning the output
\* of clean(s, c) again with the same c returns it unchanged.
C1_CleanIdempotent == pc = "recleaned" => out2 = out

\* C1 witness: a second cleaning after a first one that collapsed and trimmed
C1_Witness ==
  /\ pc = "recleaned"
  /\ opts.collapseWhitespace
  /\ opts.trim
  /\ out # <<>>
  /\ Len(out) < Len(text)

\* C3: cleaned text is reported clean: isClean(clean(s, c)) is true and
\* inspect(clean(s, c)) has clean = true and issueCount = 0.
C3_CleanedIsClean ==
  pc = "cleanedInspected" =>
     /\ verdict = TRUE
     /\ issues.clean = TRUE
     /\ issues.issueCount = 0

\* C3 witness: the input was not clean, and something of it is left
C3_Witness ==
  /\ pc = "cleanedInspected"
  /\ ~P_isClean(text)
  /\ out # <<>>

\* C5: every actual emoji and every skin-tone modifier of s, and when s has an
\* actual emoji every variation selector and every U+200D of s, occurs
\* unchanged in clean(s, c), in the same relative order.
C5_EmojiSurvive ==
  pc = "cleaned" => IsSubseq(P_EmojiChars(text), ArrayFrom(out))

\* C5 witness: an emoji with a U+200D or a variation selector, all kept
C5_Witness ==
  /\ pc = "cleaned"
  /\ Len(P_EmojiChars(text)) = 2
  /\ \E i \in DOMAIN P_EmojiChars(text) :
        IsZwj(P_EmojiChars(text)[i]) \/ IsVariationSelector(P_EmojiChars(text)[i])
  /\ out = text

\* C8 as stated: when a typography toggle is false, clean(s, c) contains
\* every character of that category of s unchanged.
C8_DisabledToggleKeeps ==
  pc = "cleaned" =>
     /\ ~opts.normalizeSpaces => Proj(out, P_SpacesCategory) = Proj(text, P_SpacesCategory)
     /\ ~opts.normalizeQuotes => Proj(out, P_QuotesCategory) = Proj(text, P_QuotesCategory)
     /\ ~opts.normalizeDashes => Proj(out, P_DashesCategory) = Proj(text, P_DashesCategory)
     /\ ~opts.normalizeEllipsis =>
           Proj(out, P_EllipsisCategory) = Proj(text, P_EllipsisCategory)

\* C8 as amended: when a typography toggle is false, clean(s, c) contains no
\* character of that category (filterChars drops it), and for quotes, dashes
\* and the ellipsis no ASCII equivalent is written in its place.
C8_DisabledToggleDrops ==
  pc = "cleaned" =>
     /\ ~opts.normalizeSpaces => Proj(out, P_SpacesCategory) = <<>>
     /\ ~opts.normalizeQuotes =>
           /\ Proj(out, P_QuotesCategory) = <<>>
           /\ Proj(out, {39, 34}) = Proj(text, {39, 34})
     /\ ~opts.normalizeDashes =>
           /\ Proj(out, P_DashesCategory) = <<>>
           /\ Proj(out, {45}) = Proj(text, {45})
     /\ ~opts.normalizeEllipsis =>
           /\ Proj(out, P_EllipsisCategory) = <<>>
           /\ Proj(out, {46}) = Proj(text, {46})

\* C8 witness: a dash is dropped with normalizeDashes false, beside an
\* ellipsis that is normalized
C8_Witness ==
  /\ pc = "cleaned"
  /\ ~opts.normalizeDashes
  /\ Proj(text, P_DashesCategory) # <<>>
  /\ out = <<46, 46, 46>>

\* char is a Unicode scalar value (not an unpaired surrogate) that is neither
\* a control character, an invisible character, a space, quote, dash or
\* ellipsis variant, white space, nor an emoji or emoji modifier
P_Unrecognized(char) ==
  LET code == codePointAt0(char)
  IN  /\ ~(isHighSurrogate(code) \/ isLowSurrogate(code))
      /\ ~(code <= \h001F \/ (code >= \h007F /\ code <= \h009F))
      /\ code \notin Range(P_INVISIBLE_CHARS)
      /\ code \notin P_SpacesCategory \cup P_QuotesCategory
                       \cup P_DashesCategory \cup P_EllipsisCategory
      /\ code \notin JsWhiteSpace
      /\ ~P_isEmoji(char)

\* C11: every unrecognized character of s (a letter of any script) occurs
\* unchanged in clean(s, c), in the original order.
C11_UnrecognizedKept ==
  pc = "cleaned" =>
     IsSubseq(SelectSeq(ArrayFrom(text), P_Unrecognized), ArrayFrom(out))

P_Modifiers(s) ==
  SelectSeq(ArrayFrom(s), LAMBDA char : IsVariationSelector(char) \/ IsSkinTone(char))

\* s has a char in the ranges of isActualEmoji
P_HasActualEmoji(s) == \E i \in DOMAIN ArrayFrom(s) : P_isActualEmoji(ArrayFrom(s)[i])

\* C20 as stated: every variation selector and every skin-tone modifier of s
\* occurs unchanged in clean(s, c), whether or not s has another emoji.
C20_ModifiersNeverRemoved ==
  pc = "cleaned" => IsSubseq(P_Modifiers(text), ArrayFrom(out))

\* C20 as amended: every skin-tone modifier of s occurs unchanged in
\* clean(s, c); the variation selectors of s occur unchanged when s has an
\* actual emoji (a skin tone counts), and clean(s, c) has no variation
\* selector when s has no actual emoji.
C20_ModifiersKeptWithEmoji ==
  pc = "cleaned" =>
     /\ IsSubseq(SelectSeq(ArrayFrom(text), IsSkinTone), ArrayFrom(out))
     /\ P_HasActualEmoji(text) => IsSubseq(P_Modifiers(text), ArrayFrom(out))
     /\ ~P_HasActualEmoji(text) => Proj(out, P_VARIATION_SELECTORS_REGEX) = <<>>

\* C20 witness: a variation selector beside a skin-tone modifier, both kept
C20_Witness ==
  /\ pc = "cleaned"
  /\ Len(P_Modifiers(text)) = 2
  /\ \E i \in DOMAIN P_Modifiers(text) : IsSkinTone(P_Modifiers(text)[i])
  /\ \E i \in DOMAIN P_Modifiers(text) : IsVariationSelector(P_Modifiers(text)[i])
  /\ out = text

(***************************************************************************)
(* Properties of the presets variant's other calls.                        *)
(***************************************************************************)
\* the curly and angled quotation marks
CurlyAndAngledQuotes == (\h2018 .. \h201F) \cup {\h2039, \h203A, \h00AB, \h00BB}

\* C12: clean(s) called with no options leaves every curly and angled
\* quotation mark of s unchanged in the output.
C12_QuotesKeptByDefault ==
  pc = "cleanedDefault" =>
     Proj(out, CurlyAndAngledQuotes) = Proj(text, CurlyAndAngledQuotes)

\* the message the documentation asks for: it names the requested preset and
\* lists the four valid names
P_NamesPresetAndLists(message, preset) ==
  /\ \E i \in DOMAIN message : message[i] = preset
  /\ \A name \in {"strict", "standard", "lenient", "llm"} :
        \E i \in DOMAIN message : message[i] = name

\* C13: for every name that is not one of strict, standard, lenient, llm,
\* cleanWith(text, name) throws an error whose message names the requested
\* preset and lists the four valid names, and returns no cleaned string.
C13_InvalidPresetThrows ==
  (pc = "cleanedWith" /\ opts.preset \notin {"strict", "standard", "lenient", "llm"}) =>
     /\ out.threw
     /\ P_NamesPresetAndLists(out.message, opts.preset)

\* the issues of the last findIssues / inspect call
P_IssuesFound == IF pc = "found" THEN issues ELSE issues.issues

\* C14: the issues of findIssues(s) / inspect(s) are in strictly increasing
\* position, and each position is the zero-based index of the issue's char in
\* Array.from(s).
C14_PositionsAreScalarIndexes ==
  pc \in {"found", "reported"} =>
     /\ \A j \in DOMAIN P_IssuesFound :
           /\ P_IssuesFound[j].position + 1 \in DOMAIN ArrayFrom(text)
           /\ ArrayFrom(text)[P_IssuesFound[j].position + 1] = P_IssuesFound[j].char
     /\ \A j \in DOMAIN P_IssuesFound :
           j > 1 => P_IssuesFound[j - 1].position < P_IssuesFound[j].position

\* C14 witness: an issue that follows a surrogate pair, so that its scalar
\* index (1) differs from its UTF-16 offset (2)
C14_Witness ==
  /\ pc = "found"
  /\ Len(text) = 3
  /\ isHighSurrogate(text[1])
  /\ isLowSurrogate(text[2])
  /\ \E j \in DOMAIN issues : issues[j].position = 1

\* the sum of the counts of a summary
RECURSIVE SumCounts(_, _)
SumCounts(summary, keys) ==
  IF keys = {} THEN 0
  ELSE LET k == CHOOSE x \in keys : TRUE
       IN  summary[k].count + SumCounts(summary, keys \ {k})

\* C15: the summary of inspect(s) is the grouping of its issues by name: its
\* keys are the names that occur, each count is the number of issues of that
\* name, the counts sum to issueCount = issues.length, and each code is the
\* codeHex of an issue of that name.
C15_SummaryGroupsByName ==
  pc = "reported" =>
     /\ DOMAIN issues.summary = {issues.issues[j].name : j \in DOMAIN issues.issues}
     /\ \A k \in DOMAIN issues.summary :
           /\ issues.summary[k].count =
                 Cardinality({j \in DOMAIN issues.issues : issues.issues[j].name = k})
           /\ \E j \in DOMAIN issues.issues :
                 /\ issues.issues[j].name = k
                 /\ issues.issues[j].codeHex = issues.summary[k].code
     /\ issues.issueCount = Len(issues.issues)
     /\ SumCounts(issues.summary, DOMAIN issues.summary) = issues.issueCount

\* C15 witness: three issues under two names, one of them counted twice
C15_Witness ==
  /\ pc = "reported"
  /\ issues.issueCount = 3
  /\ Cardinality(DOMAIN issues.summary) = 2
  /\ \E k \in DOMAIN issues.summary : issues.summary[k].count = 2

\* what normalize may change: a Unicode space, quote, dash or ellipsis
P_TypographyCategory ==
  P_SpacesCategory \cup P_QuotesCategory \cup P_DashesCategory \cup P_EllipsisCategory

\* the ASCII equivalent of a code unit of P_TypographyCategory
P_AsciiEquivalent(u) ==
  IF u \in P_SpacesCategory THEN <<32>>
  ELSE IF u \in P_QuotesCategory
       THEN P_QUOTE_MAP[CHOOSE i \in DOMAIN P_QUOTE_MAP : P_QUOTE_MAP[i][1] = u][2]
  ELSE IF u \in P_DashesCategory THEN <<45>>
  ELSE <<46, 46, 46>>

\* C17: normalize(s) is s with every Unicode space, quote, dash and ellipsis
\* replaced by its ASCII equivalent, and every other character left as it is.
C17_NormalizeOnlyNormalizes ==
  pc = "normalized" =>
     out = join([i \in DOMAIN text |->
                   IF text[i] \in P_TypographyCategory
                   THEN P_AsciiEquivalent(text[i]) ELSE <<text[i]>>])

\* C19: for every issue of findIssues(s), code is the scalar value of char,
\* codeHex is "U+" and that value in upper-case hexadecimal of at least four
\* digits, and issues of different scalar values have different names.
C19_IssueIdentifiesCodePoint ==
  pc = "found" =>
     /\ \A j \in DOMAIN issues :
           /\ issues[j].code = codePointAt0(issues[j].char)
           /\ issues[j].codeHex =
                 <<"U", "+">> \o padStart(toString16Upper(codePointAt0(issues[j].char)), 4, "0")
     /\ \A i, j \in DOMAIN issues :
           codePointAt0(issues[i].char) # codePointAt0(issues[j].char)
              => issues[i].name # issues[j].name

\* C21 as stated: with preserveTabs true and trim false every TAB of s is in
\* clean(s, c), whatever collapseWhitespace and preserveLineBreaks are.
C21_TabsAlwaysPreserved ==
  (pc = "cleaned" /\ opts.preserveTabs /\ ~opts.trim) =>
     Proj(out, {\h0009}) = Proj(text, {\h0009})

\* C21 as amended: with preserveTabs true and trim false every TAB of s is in
\* clean(s, c), except when collapseWhitespace and preserveLineBreaks are both
\* true: then clean(s, c) has no TAB (the runs of spaces and tabs have become
\* single spaces).
C21_TabsPreservedUnlessCollapsed ==
  (pc = "cleaned" /\ opts.preserveTabs /\ ~opts.trim) =>
     IF opts.collapseWhitespace /\ opts.preserveLineBreaks
     THEN Proj(out, {\h0009}) = <<>>
     ELSE Proj(out, {\h0009}) = Proj(text, {\h0009})

\* C21 witness: whitespace is collapsed around a TAB, which is kept
C21_Witness ==
  /\ pc = "cleaned"
  /\ opts.preserveTabs
  /\ ~opts.trim
  /\ opts.collapseWhitespace
  /\ ~opts.preserveLineBreaks
  /\ Proj(out, {\h0009}) # <<>>
  /\ Len(out) < Len(text)

\* C22: with collapseWhitespace true, clean(s, c) never has two adjacent
\* ASCII spaces, for every preserveLineBreaks and preserveTabs; and with
\* preserveLineBreaks true and trim false every LF and CR of s is in
\* clean(s, c).
C22_NoAdjacentSpaces ==
  pc = "cleaned" =>
     /\ opts.collapseWhitespace =>
           \A i \in DOMAIN out : i > 1 => ~(out[i - 1] = 32 /\ out[i] = 32)
     /\ (opts.preserveLineBreaks /\ ~opts.trim) =>
           Proj(out, {\h000A, \h000D}) = Proj(text, {\h000A, \h000D})

\* C22 witness: a run of two spaces is collapsed beside a line break, which
\* is kept
C22_Witness ==
  /\ pc = "cleaned"
  /\ opts.collapseWhitespace
  /\ opts.preserveLineBreaks
  /\ ~opts.trim
  /\ \E i \in DOMAIN text : i > 1 /\ text[i - 1] = 32 /\ text[i] = 32
  /\ Proj(out, {\h000A}) # <<>>
  /\ Len(out) = Len(text) - 1

\* the standard preset overridden field by field by the record o
StandardOverriddenBy(o) ==
  [k \in DOMAIN P_presets.standard |->
     IF k \in DOMAIN o THEN o[k] ELSE P_presets.standard[k]]

\* C25: clean(s) = cleanWith(s, 'standard') = cleanWith(s), and for a partial
\* options record o, clean(s, o) is the sanitizing of s under the standard
\* preset overridden field by field by o.
C25_DefaultIsStandard ==
  /\ pc \in {"comparedStandard", "comparedNoPreset"} =>
        /\ ~out2.threw
        /\ out2.value = out
  /\ pc = "cleanedPartial" => out = P_sanitize(text, StandardOverriddenBy(opts))

\* C25 witness: clean(s, {trim: false}) keeps a leading space, the other
\* fields being those of the standard preset
C25_Witness ==
  /\ pc = "cleanedPartial"
  /\ DOMAIN opts = {"trim"}
  /\ ~opts.trim
  /\ Len(out) = 3
  /\ out[1] = 32
  /\ out # text

\* C27: text that isClean accepts is not altered by normalize: if isClean(s)
\* then normalize(s) = s.
C27_CleanTextIsNormalized ==
  (pc = "checkedNormalized" /\ verdict) => out = text

====
